---- MODULE Spec2Model ----
(***************************************************************************)
(* The export-and-publish workflow of GeometryExporterUI                   *)
(* (src/extensions/geo-export/ui.tsx and its three sibling revisions).     *)
(*                                                                         *)
(* One component instance is modelled.  Which revision of the component is *)
(* deployed is fixed in the initial state (variant):                       *)
(*   "direct"    src/src/extensions/geo-export/ui.tsx  (GitHub dispatch)   *)
(*   "proxy"     src/unnamed/part_000                  (two exporters)     *)
(*   "token"     src/unnamed/part_001                  (token, then upload)*)
(*   "multipart" src/unnamed/part_002, lines 1-169     (form upload)       *)
(* part_002, lines 171-373, repeats the "proxy" handlers statement for     *)
(* statement (it only drops the two unused filename constants).            *)
(*                                                                         *)
(* Every handler is an async function: it runs synchronously up to its     *)
(* first await, and each later step is the continuation that runs when the *)
(* awaited promise settles.  The settlement (resolve with which value, or  *)
(* reject) is chosen by the environment.  React flushes the setState of a  *)
(* click handler, and of a promise continuation, before the next event is  *)
(* dispatched, so the controls a click meets are renderControls of the     *)
(* current state.                                                          *)
(***************************************************************************)
EXTENDS Integers, Sequences, FiniteSets, TLC

\* ------------------------------------------------------------- bounds
\* how many handler invocations one run starts
MaxInv == 2

\* ------------------------------------------------------------- values
Variants == {"direct", "proxy", "token", "multipart"}
Formats == {"glb", "usdz"}
Undefined == "undefined"

\* what the optional chain down to entryId yields for a loaded structure: an
\* entry id, or a falsy value ("": the empty id, or the undefined that a
\* missing object or a missing model short-circuits to)
EntryIds == {"1CRN", ""}

\* the JSON bodies an upload answer can carry; json = FALSE is a body that
\* response.json() cannot parse
Bodies ==
    { [json |-> TRUE,  success |-> "true",    arLink |-> "L",       qrCodeUrl |-> "Q",       error |-> Undefined],
      [json |-> TRUE,  success |-> "true",    arLink |-> "L",       qrCodeUrl |-> Undefined, error |-> Undefined],
      [json |-> TRUE,  success |-> "true",    arLink |-> Undefined, qrCodeUrl |-> Undefined, error |-> Undefined],
      [json |-> TRUE,  success |-> "false",   arLink |-> Undefined, qrCodeUrl |-> Undefined, error |-> "x"],
      [json |-> TRUE,  success |-> Undefined, arLink |-> "L",       qrCodeUrl |-> "Q",       error |-> Undefined],
      [json |-> TRUE,  success |-> Undefined, arLink |-> Undefined, qrCodeUrl |-> Undefined, error |-> Undefined],
      [json |-> FALSE, success |-> Undefined, arLink |-> Undefined, qrCodeUrl |-> Undefined, error |-> Undefined] }

NoBody == [json |-> FALSE, success |-> Undefined, arLink |-> Undefined, qrCodeUrl |-> Undefined, error |-> Undefined]

\* a fetch that resolved: its status class and its body
Responses == [ok : BOOLEAN, body : Bodies]
NoResponse == [ok |-> FALSE, body |-> NoBody]

\* a Blob: who produced it, in which format, and its bytes
NoBlob == [by |-> "none", format |-> "none", bytes |-> <<>>]
ByteStrings == {<<>>, <<1>>}

\* an artifact made ready for transport: the blob it was made of and its text
NoEncoded == [of |-> NoBlob, text |-> Undefined]

\* what the token endpoint answers: a fresh token, an object without one, or
\* a body that is not JSON
TokenBodies == {"token", "empty", "notJSON"}

\* a token fetch that resolved; token is the token the endpoint issued (0: none)
NoTokenResponse == [ok |-> FALSE, body |-> "notJSON", token |-> 0]

\* the request a handler sent to the upload (or dispatch) endpoint
NoRequest == [sent |-> FALSE, scheme |-> "none", token |-> 0, pdbId |-> Undefined,
              glb |-> NoEncoded, usdz |-> NoEncoded, filenames |-> {}]

\* what a handler presented to the user
NoShown == [how |-> "none", link |-> Undefined, qr |-> Undefined]

\* the delays, in milliseconds, of the two timers viewInAR sets
ClickDelay == 0
RevokeDelay == 40000

\* the abstraction of reprCount.value: no representation, or some
ReprCounts == {0, 1}

VARIABLES
    variant,        \* which revision of the component is deployed
    busy,           \* this.state.busy
    isCollapsed,    \* this.state.isCollapsed
    isARSupported,  \* this.isARSupported: "undefined", TRUE->"true", "false"
    nProbes,        \* how often relList.supports('ar') has been called
    format,         \* ctrl.behaviors.params.value.format
    reprCount,      \* plugin.canvas3d.reprCount.value
    structures,     \* entry ids of the loaded structures, in hierarchy order
    calls,          \* the handler invocations in flight
    last,           \* the invocation that finished most recently
    nStarted,       \* invocations started so far
    nTokens,        \* tokens the token endpoint has issued so far
    popups,         \* the share popups appended to document.body
    objectURLs,     \* the object URLs viewInAR created, with their two timers
    clock,          \* the latest timestamp new Date() has returned (0: none yet)
    issued          \* the filename stems exportToAR has derived, in order

vars == <<variant, busy, isCollapsed, isARSupported, nProbes, format, reprCount,
          structures, calls, last, nStarted, nTokens, popups, objectURLs,
          clock, issued>>

\* ------------------------------------------------------------- invocations
\* The frame of one handler invocation: its position (pc), its locals, the
\* calls it has made so far, in order (log), the exception that is
\* propagating in it (error) and the state of the promise it returned.
NoCall ==
    [id |-> 0, kind |-> "none", pc |-> "none", subjects |-> 0, log |-> <<>>, data |-> NoBlob,
     glb |-> NoEncoded, usdz |-> NoEncoded, pdbId |-> Undefined,
     timestamp |-> 0, randomId |-> 0,
     error |-> Undefined, returned |-> "pending",
     tokenResponse |-> NoTokenResponse, token |-> 0,
     response |-> NoResponse, request |-> NoRequest, shown |-> NoShown]

\* a new frame; subjects is the number of structures loaded when it is invoked
NewCall(kind) ==
    [NoCall EXCEPT !.id = nStarted + 1, !.kind = kind, !.subjects = Len(structures)]

Finished == IF last.kind = "none" THEN {} ELSE {last}
AllCalls == calls \cup Finished

\* position of the first occurrence of event e in log l (0 when absent)
IndexOf(l, e) ==
    IF \E i \in 1..Len(l) : l[i] = e
    THEN CHOOSE i \in 1..Len(l) : l[i] = e /\ \A j \in 1..(i - 1) : l[j] # e
    ELSE 0

Count(l, e) == Cardinality({i \in 1..Len(l) : l[i] = e})
Has(l, e) == \E i \in 1..Len(l) : l[i] = e

\* ------------------------------------------------------------- rendering
\* the revisions that declare isARSupported and render a "View in AR" button
HasViewInAR(v) == v \in {"proxy", "token"}

\* faulty renderControls: the "Save" button ignores reprCount and the
\* parameter controls ignore state.busy
renderControls_SaveAlwaysOn(v, b, r, ar, f) ==
    [params   |-> [disabled |-> FALSE],
     save     |-> [shown |-> TRUE, disabled |-> b],
     viewInAR |-> [shown |-> (HasViewInAR(v) /\ ar = "true" /\ f = "usdz"),
                   disabled |-> (b \/ r = 0)],
     exportAR |-> [shown |-> TRUE, disabled |-> (b \/ r = 0)]]

\* faulty renderControls: the "Export to AR" button ignores state.busy
renderControls_NoBusyGate(v, b, r, ar, f) ==
    [params   |-> [disabled |-> b],
     save     |-> [shown |-> TRUE, disabled |-> (b \/ r = 0)],
     viewInAR |-> [shown |-> (HasViewInAR(v) /\ ar = "true" /\ f = "usdz"),
                   disabled |-> (b \/ r = 0)],
     exportAR |-> [shown |-> TRUE, disabled |-> (r = 0)]]

\* faulty probe: relList.supports is asked at every render
Probe_NoMemo(ar, n, supports) == [isARSupported |-> supports, nProbes |-> n + 1]

\* if (this.isARSupported === undefined) this.isARSupported = !!...supports?.('ar')
\* at the head of renderControls; supports is what the browser answers
Probe(ar, n, supports) ==
    IF ar = Undefined THEN [isARSupported |-> supports, nProbes |-> n + 1]
    ELSE [isARSupported |-> ar, nProbes |-> n]

\* renderControls: the controls as rendered for state.busy = b, reprCount.value
\* = r, isARSupported = ar and params.format = f.  A control that is not
\* rendered cannot be clicked; a disabled button delivers no click.
renderControls(v, b, r, ar, f) ==
    [params   |-> [disabled |-> b],
     save     |-> [shown |-> TRUE, disabled |-> (b \/ r = 0)],
     viewInAR |-> [shown |-> (HasViewInAR(v) /\ ar = "true" /\ f = "usdz"),
                   disabled |-> (b \/ r = 0)],
     exportAR |-> [shown |-> TRUE, disabled |-> (b \/ r = 0)]]

\* the controls on screen: CollapsableControls renders renderControls only
\* while the panel is expanded
Controls == renderControls(variant, busy, reprCount, isARSupported, format)
Clickable(button) == ~isCollapsed /\ button.shown /\ ~button.disabled

\* ------------------------------------------------------------- encoding
\* the base64 text of a byte string (btoa of no bytes is "", of 0x01 "AQ==")
Base64(bytes) == IF bytes = <<>> THEN "" ELSE "AQ=="

\* FileReader.readAsDataURL: reader.result, split at ',' ("data:...;base64"
\* and the base64 text); after a failed read reader.result is null
ReaderResult(blob, read) ==
    IF read = "load" THEN <<"data:application/octet-stream;base64", Base64(blob.bytes)>>
    ELSE <<>>

\* the events a FileReader fires, in order, for a read that succeeds or fails
ReaderEvents(read) ==
    IF read = "load" THEN <<"load", "loadend">> ELSE <<"error", "loadend">>

\* faulty promise: a later resolve or reject call overrides the settlement
Settle_LastWins(p, how, value) == [state |-> how, value |-> value]

\* a promise settles once: later resolve/reject calls are ignored
Settle(p, how, value) ==
    IF p.state = "pending" THEN [state |-> how, value |-> value] ELSE p

Pending == [state |-> "pending", value |-> Undefined]

\* reader.result?.toString().split(',')[1] || ''   (part_000, part_001)
LoadendText(result) ==
    IF Len(result) >= 2 /\ result[2] # "" THEN result[2] ELSE ""

\* (reader.result as string).split(',')[1]          (ui.tsx)
LoadText(result) == result[2]

\* blobToBase64 of ui.tsx: onload resolves, onerror rejects
RECURSIVE RunOnload(_, _, _)
RunOnload(p, evs, result) ==
    IF evs = <<>> THEN p
    ELSE LET q == IF Head(evs) = "load" THEN Settle(p, "resolved", LoadText(result))
                  ELSE IF Head(evs) = "error" THEN Settle(p, "rejected", "ProgressEvent")
                  ELSE p
         IN RunOnload(q, Tail(evs), result)

\* blobToBase64 of part_000 / part_001: onloadend resolves, onerror rejects
RECURSIVE RunOnloadend(_, _, _)
RunOnloadend(p, evs, result) ==
    IF evs = <<>> THEN p
    ELSE LET q == IF Head(evs) = "loadend" THEN Settle(p, "resolved", LoadendText(result))
                  ELSE IF Head(evs) = "error" THEN Settle(p, "rejected", "ProgressEvent")
                  ELSE p
         IN RunOnloadend(q, Tail(evs), result)

\* blobToBase64(blob) for a read that ends `read`: the settled promise
blobToBase64(v, blob, read) ==
    IF v = "direct"
    THEN RunOnload(Pending, ReaderEvents(read), ReaderResult(blob, read))
    ELSE RunOnloadend(Pending, ReaderEvents(read), ReaderResult(blob, read))

\* ------------------------------------------------------------- identity
\* faulty resolution: the chain is taken as it is, without the || fallback
ResolvePdbId_NoFallback(v, strs) ==
    IF Len(strs) > 0 THEN strs[1] ELSE Undefined

\* structures[0]?.cell.obj?.data?.model?.entryId || 'Unknown'
\* structures[0].cell.obj?.data.models[0]?.entryId || 'unknown'   (proxy)
ResolvePdbId(v, strs) ==
    IF Len(strs) > 0 /\ strs[1] # "" THEN strs[1]
    ELSE IF v = "proxy" THEN "unknown" ELSE "Unknown"

\* The revisions that read the filenames they derive: ui.tsx puts them in
\* the model URL, the multipart revision names its two File objects with
\* them.  part_000 and part_001 compute glbFilename and usdzFilename and never
\* read them, so their frames do not keep a timestamp or a random id.
UsesFilenames(v) == v \in {"direct", "multipart"}

\* new Date().toISOString(): a timestamp with millisecond resolution.
\* Timestamps are numbered in the order Date returns new values: a reading
\* repeats the latest value (no millisecond has passed) or is the next one.
Readings == IF clock = 0 THEN {1} ELSE {clock, clock + 1}

\* Math.random().toString(36).substring(2, 8): up to six base-36 characters.
\* The strings are numbered in the order they first appear: a draw repeats a
\* string drawn before or is a new one.
Draws == 1..(Cardinality({issued[i].randomId : i \in 1..Len(issued)}) + 1)

\* `${pdbId}-${timestamp}-${randomId}.${ext}`
Filename(n, ext) == <<n.pdbId, n.timestamp, n.randomId, ext>>

\* the part of the two filenames that an invocation derives
Stem(c) == [pdbId |-> c.pdbId, timestamp |-> c.timestamp, randomId |-> c.randomId]

\* ------------------------------------------------------------- QR code
\* QRCode.toDataURL(text): rejects when there is no text to encode, and may
\* reject while drawing; otherwise the data URL of the code of `text`
QRCodeOf(text) == IF text = "L" THEN "qr(L)" ELSE "qr(modelUrl)"
QRCodeOutcomes(text) ==
    IF text = Undefined \/ text = "" THEN {"rejected"} ELSE {"resolved", "rejected"}

\* ------------------------------------------------------------- handlers
\* Each operator below is one synchronous stretch of a handler: it takes the
\* frame c at an await and the settlement of the awaited promise, and gives
\* the frame at the next await (or at the end, pc = "done").

Emit(c, evs) == [c EXCEPT !.log = @ \o evs]
At(c, pc) == [c EXCEPT !.pc = pc]

\* the async function ends: the promise it returned is resolved, or rejected
\* with the exception that is still propagating
Return(c) ==
    [At(c, "done") EXCEPT !.returned = IF c.error = Undefined THEN "resolved" ELSE "rejected"]

\* faulty catch: the exception is logged and the user is not told
Catch_Silent(c) == Emit([c EXCEPT !.error = Undefined], <<"console.error">>)

\* faulty catch: the exception is logged and thrown again
Catch_Rethrow(c) ==
    IF c.kind = "exportToAR" THEN Emit(c, <<"console.error", "alert.failed">>)
    ELSE Emit(c, <<"console.error">>)

\* } catch (e) { console.error(e); alert(...) }  -- save and viewInAR only log
Catch(c) ==
    IF c.kind = "exportToAR"
    THEN Emit([c EXCEPT !.error = Undefined], <<"console.error", "alert.failed">>)
    ELSE Emit([c EXCEPT !.error = Undefined], <<"console.error">>)

\* faulty finally: busy is not set back to false
Finally_NoReset(c) == Return(c)

\* } finally { this.setState({ busy: false }); }
Finally(c) == Return(Emit(c, <<"busy:=false">>))

\* a throw, or the rejection of an awaited promise, inside the try block
Throw(c, ev) == Finally(Catch([Emit(c, <<ev>>) EXCEPT !.error = ev]))

\* faulty start: save awaits the export without setting busy
save_start_NoBusy(c) == At(Emit(c, <<"export">>), "export")

\* save / viewInAR, up to the first await
save_start(c) == At(Emit(c, <<"busy:=true", "export">>), "export")
viewInAR_start(c) == At(Emit(c, <<"busy:=true", "export">>), "export")

\* save, after exportGeometry settled
save_afterExport(c, settled, blob) ==
    IF settled = "rejected" THEN Throw(c, "export.rejected")
    ELSE Finally(Emit([c EXCEPT !.data = blob], <<"export.resolved", "download">>))

\* faulty continuation: the exported model is also presented in a share popup
viewInAR_afterExport_Shares(c, settled, blob) ==
    IF settled = "rejected" THEN Throw(c, "export.rejected")
    ELSE Finally(Emit([c EXCEPT !.data = blob,
                                !.shown = [how |-> "popup", link |-> Undefined, qr |-> Undefined]],
                      <<"export.resolved", "createObjectURL", "timer.revoke", "timer.click",
                        "popup">>))

\* faulty continuation: no timer is set to revoke the object URL
viewInAR_afterExport_NoRevoke(c, settled, blob) ==
    IF settled = "rejected" THEN Throw(c, "export.rejected")
    ELSE Finally(Emit([c EXCEPT !.data = blob],
                      <<"export.resolved", "createObjectURL", "timer.click">>))

\* viewInAR, after exportGeometry settled
viewInAR_afterExport(c, settled, blob) ==
    IF settled = "rejected" THEN Throw(c, "export.rejected")
    ELSE Finally(Emit([c EXCEPT !.data = blob],
                      <<"export.resolved", "createObjectURL", "timer.revoke", "timer.click">>))

\* exportToAR, up to the first await
exportToAR_start(v, c, strs) ==
    LET c1 == Emit(c, <<"busy:=true">>) IN
    IF v = "proxy"
    THEN IF Len(strs) = 0
         THEN Finally(Emit(c1, <<"alert.nostructure">>))
         ELSE At(Emit([c1 EXCEPT !.pdbId = ResolvePdbId(v, strs)], <<"export.glb">>), "export.glb")
    ELSE At(Emit(c1, <<"export">>), "export")

\* faulty request: the first token ever fetched is kept and sent again
UploadRequest_CachedToken(v, c, glb, usdz) ==
    [sent |-> TRUE,
     scheme |-> IF v = "direct" THEN "static" ELSE IF v = "token" THEN "Bearer" ELSE "none",
     token |-> IF v = "token" THEN (IF nTokens > 0 THEN 1 ELSE 0) ELSE 0,
     pdbId |-> c.pdbId, glb |-> glb, usdz |-> usdz,
     filenames |-> IF v = "multipart" THEN {Filename(c, "glb"), Filename(c, "usdz")} ELSE {}]

\* the upload request: its authorization and its body.  The body is
\* {pdbId, glb, usdz} (client_payload in ui.tsx); only the multipart revision
\* sends filenames, as the names of its two File parts.
UploadRequest(v, c, glb, usdz) ==
    [sent |-> TRUE,
     scheme |-> IF v = "direct" THEN "static" ELSE IF v = "token" THEN "Bearer" ELSE "none",
     token |-> IF v = "token" THEN c.token ELSE 0,
     pdbId |-> c.pdbId, glb |-> glb, usdz |-> usdz,
     filenames |-> IF v = "multipart" THEN {Filename(c, "glb"), Filename(c, "usdz")} ELSE {}]

FileOf(blob, type) == [of |-> blob, text |-> type]

\* exportToAR of ui.tsx, part_001 and part_002 (multipart), after
\* controls.exportGeometry() settled
exportToAR_afterExport(v, c, settled, blob, strs, ts, rnd) ==
    IF settled = "rejected" THEN Throw(c, "export.rejected")
    ELSE LET c1 == Emit([c EXCEPT !.data = blob, !.pdbId = ResolvePdbId(v, strs),
                                  !.timestamp = IF UsesFilenames(v) THEN ts ELSE 0,
                                  !.randomId = IF UsesFilenames(v) THEN rnd ELSE 0],
                        <<"export.resolved">>) IN
         IF v = "multipart"
         THEN LET glb == FileOf(blob, "model/gltf-binary")
                  usdz == FileOf(blob, "model/vnd.usdz+zip") IN
              At(Emit([c1 EXCEPT !.glb = glb, !.usdz = usdz,
                                 !.request = UploadRequest(v, c1, glb, usdz)],
                      <<"file.glb", "file.usdz", "upload">>), "upload")
         ELSE At(Emit(c1, <<"encode.glb">>), "encode.glb")

\* faulty continuation: after a rejected GLB export the USDZ export is started
exportToAR_afterGlbExport_GoOn(c, settled, blob) ==
    IF settled = "rejected"
    THEN At(Emit(c, <<"export.glb.rejected", "export.usdz">>), "export.usdz")
    ELSE At(Emit([c EXCEPT !.data = blob], <<"export.glb.resolved", "encode.glb">>), "encode.glb")

\* exportToAR of part_000, after glbExporter.export(plugin) settled
exportToAR_afterGlbExport(c, settled, blob) ==
    IF settled = "rejected" THEN Throw(c, "export.glb.rejected")
    ELSE At(Emit([c EXCEPT !.data = blob], <<"export.glb.resolved", "encode.glb">>), "encode.glb")

\* faulty continuation: a rejected USDZ export is swallowed and encoding goes on
exportToAR_afterUsdzExport_Swallow(c, settled, blob) ==
    IF settled = "rejected"
    THEN At(Emit(c, <<"export.usdz.rejected", "encode.usdz">>), "encode.usdz")
    ELSE At(Emit([c EXCEPT !.data = blob], <<"export.usdz.resolved", "encode.usdz">>), "encode.usdz")

\* exportToAR of part_000, after usdzExporter.export(plugin) settled
exportToAR_afterUsdzExport(c, settled, blob) ==
    IF settled = "rejected" THEN Throw(c, "export.usdz.rejected")
    ELSE At(Emit([c EXCEPT !.data = blob], <<"export.usdz.resolved", "encode.usdz">>), "encode.usdz")

\* faulty continuation: the upload is issued before the usdz encoding
exportToAR_afterEncodeGlb_UploadEarly(v, c, p) ==
    IF p.state = "rejected" THEN Throw(c, "encode.glb.rejected")
    ELSE LET glb == [of |-> c.data, text |-> p.value]
             c1 == Emit([c EXCEPT !.glb = glb], <<"encode.glb.resolved">>) IN
         IF v = "proxy" THEN At(Emit(c1, <<"export.usdz">>), "export.usdz")
         ELSE At(Emit([c1 EXCEPT !.request = UploadRequest(v, c1, glb, NoEncoded)],
                      <<"upload">>), "upload")

\* exportToAR, after blobToBase64(glb blob) settled to promise p
exportToAR_afterEncodeGlb(v, c, p) ==
    IF p.state = "rejected" THEN Throw(c, "encode.glb.rejected")
    ELSE LET c1 == Emit([c EXCEPT !.glb = [of |-> c.data, text |-> p.value]],
                        <<"encode.glb.resolved">>) IN
         IF v = "proxy" THEN At(Emit(c1, <<"export.usdz">>), "export.usdz")
         ELSE At(Emit(c1, <<"encode.usdz">>), "encode.usdz")

\* exportToAR, after blobToBase64(usdz blob) settled to promise p
exportToAR_afterEncodeUsdz(v, c, p) ==
    IF p.state = "rejected" THEN Throw(c, "encode.usdz.rejected")
    ELSE LET usdz == [of |-> c.data, text |-> p.value]
             c1 == Emit([c EXCEPT !.usdz = usdz], <<"encode.usdz.resolved">>) IN
         IF v = "token" THEN At(Emit(c1, <<"token.get">>), "token.get")
         ELSE At(Emit([c1 EXCEPT !.request = UploadRequest(v, c1, c1.glb, usdz)],
                      <<"upload">>), "upload")

\* faulty continuation: tokenResponse.ok is not tested
exportToAR_afterTokenFetch_NoStatusCheck(c, settled, tokenResponse) ==
    IF settled = "rejected" THEN Throw(c, "token.get.rejected")
    ELSE At(Emit([c EXCEPT !.tokenResponse = tokenResponse],
                 <<"token.get.resolved", "token.json">>), "token.json")

\* exportToAR of part_001, after fetch(TOKEN_PROXY_URL) settled
exportToAR_afterTokenFetch(c, settled, tokenResponse) ==
    IF settled = "rejected" THEN Throw(c, "token.get.rejected")
    ELSE LET c1 == Emit([c EXCEPT !.tokenResponse = tokenResponse], <<"token.get.resolved">>) IN
         IF ~tokenResponse.ok THEN Throw(c1, "throw.tokenStatus")
         ELSE At(Emit(c1, <<"token.json">>), "token.json")

\* exportToAR of part_001, after tokenResponse.json() settled
exportToAR_afterTokenJson(v, c) ==
    IF c.tokenResponse.body = "notJSON" THEN Throw(c, "token.json.rejected")
    ELSE LET c1 == Emit([c EXCEPT !.token = c.tokenResponse.token], <<"token.json.resolved">>) IN
         At(Emit([c1 EXCEPT !.request = UploadRequest(v, c1, c1.glb, c1.usdz)],
                 <<"upload">>), "upload")

\* faulty continuation: a rejected upload request is sent again once
exportToAR_afterUpload_Retry(v, c, settled, response) ==
    IF settled = "rejected"
    THEN IF Count(c.log, "upload") < 2
         THEN At(Emit(c, <<"upload.rejected", "upload">>), "upload")
         ELSE Throw(c, "upload.rejected")
    ELSE LET c1 == Emit([c EXCEPT !.response = response], <<"upload.resolved">>) IN
         IF v \in {"direct", "multipart"} /\ ~response.ok THEN Throw(c1, "throw.uploadStatus")
         ELSE IF v = "direct" THEN At(Emit(c1, <<"qr">>), "qr")
         ELSE At(Emit(c1, <<"upload.json">>), "upload.json")

\* exportToAR, after the upload fetch settled
exportToAR_afterUpload(v, c, settled, response) ==
    IF settled = "rejected" THEN Throw(c, "upload.rejected")
    ELSE LET c1 == Emit([c EXCEPT !.response = response], <<"upload.resolved">>) IN
         IF v \in {"direct", "multipart"} /\ ~response.ok THEN Throw(c1, "throw.uploadStatus")
         ELSE IF v = "direct" THEN At(Emit(c1, <<"qr">>), "qr")
         ELSE At(Emit(c1, <<"upload.json">>), "upload.json")

\* whether the handler calls response.json() on an answer of that status
BodyIsRead(v, ok) == v \in {"proxy", "token"} \/ (v = "multipart" /\ ok)

\* this.showPopup(arLink, qrCodeUrl) / document.body.appendChild(popup)
showPopup(c, arLink, qrCodeUrl) ==
    Emit([c EXCEPT !.shown = [how |-> "popup", link |-> arLink, qr |-> qrCodeUrl]], <<"popup">>)

\* faulty continuation: result.success is not tested
exportToAR_afterUploadJson_NoSuccessCheck(v, c) ==
    LET result == c.response.body IN
    IF ~result.json THEN Throw(c, "upload.json.rejected")
    ELSE LET c1 == Emit(c, <<"upload.json.resolved">>) IN
         IF v = "multipart" THEN At(Emit(c1, <<"qr">>), "qr")
         ELSE IF v = "proxy"
         THEN Finally(showPopup(c1, result.arLink, result.qrCodeUrl))
         ELSE Finally(Emit([c1 EXCEPT !.shown = [how |-> "window.open",
                                                  link |-> result.arLink,
                                                  qr |-> Undefined]],
                           <<"alert.uploaded", "window.open">>))

\* exportToAR of part_000, part_001 and part_002 (multipart), after
\* response.json() settled
exportToAR_afterUploadJson(v, c) ==
    LET result == c.response.body IN
    IF ~result.json THEN Throw(c, "upload.json.rejected")
    ELSE LET c1 == Emit(c, <<"upload.json.resolved">>) IN
         IF v = "multipart" THEN At(Emit(c1, <<"qr">>), "qr")
         ELSE IF result.success = "true"
         THEN IF v = "proxy"
              THEN Finally(showPopup(c1, result.arLink, result.qrCodeUrl))
              ELSE Finally(Emit([c1 EXCEPT !.shown = [how |-> "window.open",
                                                       link |-> result.arLink,
                                                       qr |-> Undefined]],
                                <<"alert.uploaded", "window.open">>))
         ELSE Throw(c1, "throw.uploadFailed")

\* the two filenames in the query of modelUrl (ui.tsx), the link its popup
\* presents under the name "modelUrl"
ModelUrl(c) == [glb |-> Filename(c, "glb"), usdz |-> Filename(c, "usdz")]

\* the text the QR code is made of: modelUrl (ui.tsx), result.arLink (multipart)
QRText(v, c) == IF v = "direct" THEN "modelUrl" ELSE c.response.body.arLink

\* exportToAR of ui.tsx and part_002 (multipart), after QRCode.toDataURL settled
exportToAR_afterQR(v, c, settled) ==
    IF settled = "rejected" THEN Throw(c, "qr.rejected")
    ELSE Finally(showPopup(Emit(c, <<"qr.resolved">>), QRText(v, c), QRCodeOf(QRText(v, c))))

\* ------------------------------------------------------------- state
Init ==
    /\ variant \in Variants
    /\ busy = FALSE
    /\ isCollapsed = TRUE
    /\ isARSupported = Undefined
    /\ nProbes = 0
    /\ format = "glb"
    /\ reprCount = 0
    /\ structures = <<>>
    /\ calls = {}
    /\ last = NoCall
    /\ nStarted = 0
    /\ nTokens = 0
    /\ popups = <<>>
    /\ objectURLs = {}
    /\ clock = 0
    /\ issued = <<>>

\* the effect of the setState calls among the events evs on state.busy
RECURSIVE ApplySetState(_, _)
ApplySetState(b, evs) ==
    IF evs = <<>> THEN b
    ELSE ApplySetState(IF Head(evs) = "busy:=true" THEN TRUE
                       ELSE IF Head(evs) = "busy:=false" THEN FALSE
                       ELSE b,
                       Tail(evs))

NewEvents(c, d) == SubSeq(d.log, Len(c.log) + 1, Len(d.log))

\* the timer a stretch of events sets by setTimeout, if it sets it
Timer(evs, timer) == IF Has(evs, timer) THEN "pending" ELSE "none"

\* What a synchronous stretch that took a frame from c to d did to the
\* component and the document: state.busy follows the setState calls made, a
\* popup shown is appended to the document, an object URL created is
\* registered, a timestamp read moves the clock on and the filename stem made
\* of it is on record.
Effects(c, d) ==
    /\ busy' = ApplySetState(busy, NewEvents(c, d))
    /\ popups' = IF Has(NewEvents(c, d), "popup")
                 THEN Append(popups, [link |-> d.shown.link, qr |-> d.shown.qr])
                 ELSE popups
    /\ objectURLs' = IF Has(NewEvents(c, d), "createObjectURL")
                     THEN objectURLs \cup {[id |-> d.id,
                                             click |-> Timer(NewEvents(c, d), "timer.click"),
                                             revoke |-> Timer(NewEvents(c, d), "timer.revoke")]}
                     ELSE objectURLs
    /\ clock' = IF d.timestamp # c.timestamp THEN d.timestamp ELSE clock
    /\ issued' = IF d.timestamp # c.timestamp THEN Append(issued, Stem(d)) ELSE issued

\* A click started a handler, which ran up to its first await (frame d).  The
\* frame kept in `last` is that of the latest invocation that ended; it is
\* dropped when the next invocation begins.
Begin(d) ==
    /\ nStarted' = nStarted + 1
    /\ IF d.pc = "done"
       THEN calls' = calls /\ last' = d
       ELSE calls' = calls \cup {d} /\ last' = NoCall
    /\ Effects(NoCall, d)

\* The promise the frame c awaited settled and the handler ran on to d.
Advance(c, d) ==
    /\ IF d.pc = "done"
       THEN calls' = calls \ {c} /\ last' = d
       ELSE calls' = (calls \ {c}) \cup {d} /\ last' = last
    /\ Effects(c, d)

Env == <<variant, isCollapsed, isARSupported, nProbes, format, reprCount, structures>>

\* ------------------------------------------------------------- clicks
ClickSave ==
    /\ nStarted < MaxInv
    /\ Clickable(Controls.save)
    /\ \E d \in {save_start(NewCall("save"))} : Begin(d)
    /\ UNCHANGED <<Env, nTokens>>

ClickViewInAR ==
    /\ nStarted < MaxInv
    /\ Clickable(Controls.viewInAR)
    /\ \E d \in {viewInAR_start(NewCall("viewInAR"))} : Begin(d)
    /\ UNCHANGED <<Env, nTokens>>

ClickExportToAR ==
    /\ nStarted < MaxInv
    /\ Clickable(Controls.exportAR)
    /\ \E d \in {exportToAR_start(variant, NewCall("exportToAR"), structures)} : Begin(d)
    /\ UNCHANGED <<Env, nTokens>>

\* ------------------------------------------------------------- settlements
\* controls.exportGeometry() settles: a blob in the format selected now
ExportGeometrySettles ==
    \E c \in calls, settled \in {"resolved", "rejected"}, bytes \in ByteStrings,
       ts \in Readings, rnd \in Draws :
        LET blob == [by |-> "exportGeometry", format |-> format, bytes |-> bytes]
            derives == c.kind = "exportToAR" /\ settled = "resolved" /\ UsesFilenames(variant) IN
        /\ c.pc = "export"
        /\ settled = "rejected" => bytes = <<>>
        \* where no filename is derived there is no reading and no draw to choose
        /\ ~derives => (ts = clock + 1 /\ rnd = 1)
        /\ \E d \in {CASE c.kind = "save" -> save_afterExport(c, settled, blob)
                        [] c.kind = "viewInAR" -> viewInAR_afterExport(c, settled, blob)
                        [] OTHER -> exportToAR_afterExport(variant, c, settled, blob, structures, ts, rnd)} : Advance(c, d)
        /\ UNCHANGED <<Env, nStarted, nTokens>>

GlbExporterSettles ==
    \E c \in calls, settled \in {"resolved", "rejected"}, bytes \in ByteStrings :
        /\ c.pc = "export.glb"
        /\ settled = "rejected" => bytes = <<>>
        /\ \E d \in {exportToAR_afterGlbExport(c, settled,
                          [by |-> "glbExporter", format |-> "glb", bytes |-> bytes])} : Advance(c, d)
        /\ UNCHANGED <<Env, nStarted, nTokens>>

UsdzExporterSettles ==
    \E c \in calls, settled \in {"resolved", "rejected"}, bytes \in ByteStrings :
        /\ c.pc = "export.usdz"
        /\ settled = "rejected" => bytes = <<>>
        /\ \E d \in {exportToAR_afterUsdzExport(c, settled,
                          [by |-> "usdzExporter", format |-> "usdz", bytes |-> bytes])} : Advance(c, d)
        /\ UNCHANGED <<Env, nStarted, nTokens>>

\* the FileReader of blobToBase64 finishes its read, well or with an error
FileReaderSettles ==
    \E c \in calls, read \in {"load", "error"} :
        LET c1 == Emit(c, <<IF read = "load" THEN "reader.load" ELSE "reader.error">>)
            p == blobToBase64(variant, c.data, read) IN
        /\ c.pc \in {"encode.glb", "encode.usdz"}
        /\ \E d \in {IF c.pc = "encode.glb"
                      THEN exportToAR_afterEncodeGlb(variant, c1, p)
                      ELSE exportToAR_afterEncodeUsdz(variant, c1, p)} : Advance(c, d)
        /\ UNCHANGED <<Env, nStarted, nTokens>>

\* fetch(TOKEN_PROXY_URL) settles; an answer with a token carries a fresh one
TokenFetchSettles ==
    \E c \in calls, settled \in {"resolved", "rejected"}, ok \in BOOLEAN, body \in TokenBodies :
        LET granted == settled = "resolved" /\ body = "token"
            tokenResponse == [ok |-> ok, body |-> body,
                              token |-> IF granted THEN nTokens + 1 ELSE 0] IN
        /\ c.pc = "token.get"
        /\ settled = "rejected" => (ok = FALSE /\ body = "notJSON")
        \* the body of an answer that is not ok is never read
        /\ ~ok => body = "notJSON"
        /\ \E d \in {exportToAR_afterTokenFetch(c, settled, tokenResponse)} : Advance(c, d)
        /\ nTokens' = IF granted THEN nTokens + 1 ELSE nTokens
        /\ UNCHANGED <<Env, nStarted>>

TokenJsonSettles ==
    \E c \in calls :
        /\ c.pc = "token.json"
        /\ \E d \in {exportToAR_afterTokenJson(variant, c)} : Advance(c, d)
        /\ UNCHANGED <<Env, nStarted, nTokens>>

\* the upload (or dispatch) fetch settles
UploadFetchSettles ==
    \E c \in calls, settled \in {"resolved", "rejected"}, response \in Responses :
        /\ c.pc = "upload"
        /\ settled = "rejected" => response = NoResponse
        \* a body the handler never reads is left out
        /\ ~BodyIsRead(variant, response.ok) => response.body = NoBody
        /\ \E d \in {exportToAR_afterUpload(variant, c, settled, response)} : Advance(c, d)
        /\ UNCHANGED <<Env, nStarted, nTokens>>

UploadJsonSettles ==
    \E c \in calls :
        /\ c.pc = "upload.json"
        /\ \E d \in {exportToAR_afterUploadJson(variant, c)} : Advance(c, d)
        /\ UNCHANGED <<Env, nStarted, nTokens>>

QRCodeSettles ==
    \E c \in calls : \E settled \in QRCodeOutcomes(QRText(variant, c)) :
        /\ c.pc = "qr"
        /\ \E d \in {exportToAR_afterQR(variant, c, settled)} : Advance(c, d)
        /\ UNCHANGED <<Env, nStarted, nTokens>>

\* ------------------------------------------------------------- timers, popup
\* Timers set in the same stretch run in the order of their delays.
\* setTimeout(() => a.dispatchEvent(new MouseEvent('click')))
ClickTimerFires ==
    \E u \in objectURLs :
        /\ u.click = "pending"
        /\ u.revoke = "pending" => ClickDelay <= RevokeDelay
        /\ objectURLs' = (objectURLs \ {u}) \cup {[u EXCEPT !.click = "fired"]}
        /\ UNCHANGED <<Env, busy, calls, last, nStarted, nTokens, popups, clock, issued>>

\* setTimeout(() => URL.revokeObjectURL(a.href), 4E4): the URL is released
RevokeTimerFires ==
    \E u \in objectURLs :
        /\ u.revoke = "pending"
        /\ u.click = "pending" => RevokeDelay <= ClickDelay
        /\ objectURLs' = (objectURLs \ {u}) \cup {[u EXCEPT !.revoke = "fired"]}
        /\ UNCHANGED <<Env, busy, calls, last, nStarted, nTokens, popups, clock, issued>>

\* <button onclick="document.body.removeChild(this.parentNode)">Close</button>
ClosePopup ==
    \E i \in 1..Len(popups) :
        /\ popups' = SubSeq(popups, 1, i - 1) \o SubSeq(popups, i + 1, Len(popups))
        /\ UNCHANGED <<Env, busy, calls, last, nStarted, nTokens, objectURLs, clock, issued>>

\* ------------------------------------------------------------- environment
\* the header button of CollapsableControls: expanding the panel renders the
\* controls, and renderControls begins with the probe.  Every other render
\* happens while the panel is expanded, after that one.
ToggleCollapsed ==
    \E supports \in {"true", "false"} :
        LET probed == IF isCollapsed /\ HasViewInAR(variant)
                      THEN Probe(isARSupported, nProbes, supports)
                      ELSE [isARSupported |-> isARSupported, nProbes |-> nProbes] IN
        \* without a probe there is no answer to choose
        /\ probed.nProbes = nProbes => supports = "false"
        /\ isCollapsed' = ~isCollapsed
        /\ isARSupported' = probed.isARSupported
        /\ nProbes' = probed.nProbes
        /\ UNCHANGED <<variant, format, reprCount, structures, busy, calls, last,
                       nStarted, nTokens, popups, objectURLs, clock, issued>>

\* onChangeValues={xs => ctrl.behaviors.params.next(xs)}
ChangeParams ==
    \E f \in Formats :
        /\ ~isCollapsed /\ ~Controls.params.disabled
        /\ f # format
        /\ format' = f
        /\ UNCHANGED <<variant, isCollapsed, isARSupported, nProbes, reprCount, structures, busy,
                       calls, last, nStarted, nTokens, popups, objectURLs, clock, issued>>

\* plugin.canvas3d.reprCount changes (representations added or removed)
ReprCountChanges ==
    \E r \in ReprCounts :
        /\ r # reprCount
        /\ reprCount' = r
        /\ UNCHANGED <<variant, isCollapsed, isARSupported, nProbes, format, structures, busy,
                       calls, last, nStarted, nTokens, popups, objectURLs, clock, issued>>

\* faulty environment: a change of the hierarchy aborts what is in flight
HierarchyChanges_Aborts ==
    \E strs \in {<<>>} \cup {<<e>> : e \in EntryIds} :
        /\ strs # structures
        /\ structures' = strs
        /\ calls' = {}
        /\ busy' = FALSE
        /\ UNCHANGED <<variant, isCollapsed, isARSupported, nProbes, format, reprCount,
                       last, nStarted, nTokens, popups, objectURLs, clock, issued>>

\* the structure hierarchy changes (a structure is loaded or removed)
HierarchyChanges ==
    \E strs \in {<<>>} \cup {<<e>> : e \in EntryIds} :
        /\ strs # structures
        /\ structures' = strs
        /\ UNCHANGED <<variant, isCollapsed, isARSupported, nProbes, format, reprCount, busy,
                       calls, last, nStarted, nTokens, popups, objectURLs, clock, issued>>

Next ==
    \/ ClickSave
    \/ ClickViewInAR
    \/ ClickExportToAR
    \/ ExportGeometrySettles
    \/ GlbExporterSettles
    \/ UsdzExporterSettles
    \/ FileReaderSettles
    \/ TokenFetchSettles
    \/ TokenJsonSettles
    \/ UploadFetchSettles
    \/ UploadJsonSettles
    \/ QRCodeSettles
    \/ ClickTimerFires
    \/ RevokeTimerFires
    \/ ClosePopup
    \/ ToggleCollapsed
    \/ ChangeParams
    \/ ReprCountChanges
    \/ HierarchyChanges

Spec == Init /\ [][Next]_vars

\* an awaited promise settles and its handler runs on
Settles ==
    \/ ExportGeometrySettles
    \/ GlbExporterSettles
    \/ UsdzExporterSettles
    \/ FileReaderSettles
    \/ TokenFetchSettles
    \/ TokenJsonSettles
    \/ UploadFetchSettles
    \/ UploadJsonSettles
    \/ QRCodeSettles

\* the behaviours in which every awaited stage eventually settles
SpecSettling == Spec /\ WF_vars(Settles)

\* the behaviours in which a timer that is due eventually runs
SpecTimers == Spec /\ WF_vars(ClickTimerFires) /\ WF_vars(RevokeTimerFires)

\* ------------------------------------------------------------- properties
ExportCalls == {c \in AllCalls : c.kind = "exportToAR"}
LastEvent(c) == IF c.log = <<>> THEN "none" ELSE c.log[Len(c.log)]

\* C1 -- busy-gate exclusivity: at every moment at most one invocation of
\* save, viewInAR or exportToAR is in flight, busy is true while it is, and
\* while busy is true the "Export to AR" control delivers no click, so no
\* second invocation (exporter call, upload request) can start.
C1_BusyGateExclusivity ==
    /\ Cardinality(calls) <= 1
    /\ calls # {} => busy
    /\ busy => ~ENABLED ClickExportToAR

\* a cycle is in flight at its upload, and but for busy the user could click
\* "Export to AR" again (panel open, representations present, budget left)
C1_Witness ==
    /\ \E c \in calls : c.kind = "exportToAR" /\ c.pc = "upload"
    /\ busy /\ ~isCollapsed /\ reprCount > 0 /\ nStarted < MaxInv

\* C2 -- Idle -> Busy -> Idle: every invocation of save, viewInAR or
\* exportToAR calls setState({busy: true}) first, busy is true while it is in
\* flight, its last call is setState({busy: false}), and when every awaited
\* stage eventually settles an invocation in flight leads to a state with no
\* invocation in flight and busy false, whichever way the stages settled.
C2_IdleBusyIdle ==
    /\ [](\A c \in AllCalls :
            /\ c.log[1] = "busy:=true"
            /\ c \in calls => busy
            /\ c.pc = "done" => LastEvent(c) = "busy:=false")
    /\ (calls # {}) ~> (calls = {} /\ ~busy)

\* an exportToAR invocation that failed at the presentation stage (the QR
\* code could not be drawn) has ended and left the component idle
C2_Witness ==
    /\ last.kind = "exportToAR" /\ Has(last.log, "qr.rejected")
    /\ calls = {} /\ ~busy

\* how an invocation ended, as its user sees it
Outcome(c) ==
    [ended |-> c.pc = "done",
     shown |-> c.shown,
     popup |-> Has(c.log, "popup"),
     opened |-> Has(c.log, "window.open"),
     notices |-> Count(c.log, "alert.failed"),
     logged |-> Count(c.log, "console.error"),
     idle |-> LastEvent(c) = "busy:=false"]

\* the outcome of a failed exportToAR: nothing presented, the cause logged,
\* one failure notice, busy set back to false
FailureOutcome ==
    [ended |-> TRUE, shown |-> NoShown, popup |-> FALSE, opened |-> FALSE,
     notices |-> 1, logged |-> 1, idle |-> TRUE]

NoPublish(c) ==
    /\ ~Has(c.log, "token.get")
    /\ ~Has(c.log, "upload")
    /\ ~c.request.sent

ExportRejected(c) ==
    \/ Has(c.log, "export.rejected")
    \/ Has(c.log, "export.glb.rejected")
    \/ Has(c.log, "export.usdz.rejected")

\* C3 -- failure containment: an exportToAR invocation whose export stage
\* rejected has issued no token request and no upload request, has presented
\* nothing, has shown one failure notice and has ended by setting busy to
\* false; with nothing else in flight the component is idle.
C3_ExportFailureContained ==
    \A c \in ExportCalls :
        ExportRejected(c) =>
            /\ NoPublish(c)
            /\ Outcome(c) = FailureOutcome
            /\ calls = {} => ~busy

\* the USDZ exporter rejected after the GLB artifact had been encoded
C3_Witness ==
    /\ last.kind = "exportToAR"
    /\ Has(last.log, "encode.glb.resolved")
    /\ Has(last.log, "export.usdz.rejected")

PayloadFailure(c) ==
    /\ Has(c.log, "upload.resolved")
    /\ c.response.body.json
    /\ c.response.body.success = "false"

NetworkError(c) == Has(c.log, "upload.rejected")

\* C4 -- in the revisions that read the upload answer's payload, an answer
\* {success:false, error:x} ends exportToAR as a network error of the upload
\* request does: nothing is presented while the invocation runs on, and it
\* ends with the outcome of a failure (no link or code presented, one failure
\* notice, busy set back to false).
C4_FailurePayloadAsNetworkError ==
    \A c \in ExportCalls :
        (PayloadFailure(c) \/ NetworkError(c)) =>
            /\ c.shown = NoShown
            /\ c.pc = "done" => Outcome(c) = FailureOutcome

\* an invocation ended after the endpoint answered 200 {success:false}
C4_Witness ==
    /\ last.kind = "exportToAR" /\ PayloadFailure(last) /\ last.response.ok
    /\ last.pc = "done"

\* C5 -- after an upload answer whose status is not 2xx no share link or code
\* is presented in that invocation, whatever the body of the answer.
C5_NonSuccessStatusFails ==
    \A c \in ExportCalls :
        (Has(c.log, "upload.resolved") /\ ~c.response.ok) => c.shown.how = "none"

\* C6 -- no partial success: a popup shown carries a link and a code image,
\* and an answer that lacks the link field or the success indicator leads to
\* no presentation at all.
C6_NoPartialSuccess ==
    \A c \in ExportCalls :
        /\ c.shown.how = "popup" => (c.shown.link # Undefined /\ c.shown.qr # Undefined)
        /\ ( /\ Has(c.log, "upload.json.resolved")
             /\ (c.response.body.arLink = Undefined \/ c.response.body.success = Undefined) )
           => c.shown.how = "none"

\* C7 -- no-subject guard: an exportToAR invoked with no structure loaded
\* has called no exporter, requested no token and no upload, and has ended
\* with busy set back to false.
C7_NoSubjectGuard ==
    \A c \in ExportCalls :
        c.subjects = 0 =>
            /\ ~Has(c.log, "export") /\ ~Has(c.log, "export.glb") /\ ~Has(c.log, "export.usdz")
            /\ NoPublish(c)
            /\ c.pc = "done" /\ LastEvent(c) = "busy:=false"

Before(l, a, b) == IndexOf(l, a) > 0 /\ IndexOf(l, a) < IndexOf(l, b)

\* the event by which the export that produces an artifact resolves
ExportResolved(v, artifact) ==
    IF v = "proxy" THEN (IF artifact = "glb" THEN "export.glb.resolved" ELSE "export.usdz.resolved")
    ELSE "export.resolved"

\* the events by which the encodings of the two artifacts are complete
Encoded(v, artifact) ==
    IF v = "multipart" THEN (IF artifact = "glb" THEN "file.glb" ELSE "file.usdz")
    ELSE (IF artifact = "glb" THEN "encode.glb.resolved" ELSE "encode.usdz.resolved")

EncodeStart(v, artifact) ==
    IF v = "multipart" THEN (IF artifact = "glb" THEN "file.glb" ELSE "file.usdz")
    ELSE (IF artifact = "glb" THEN "encode.glb" ELSE "encode.usdz")

\* C8 -- stage ordering within one exportToAR invocation: the encoding of an
\* artifact starts only after the export that produces it has resolved (and
\* is given the blob that export resolved with), and the upload request is
\* issued only after the encodings of both the glb and the usdz artifact
\* have resolved, and carries them.
C8_StageOrdering ==
    \A c \in ExportCalls : \A a \in {"glb", "usdz"} :
        /\ Has(c.log, EncodeStart(variant, a)) =>
              Before(c.log, ExportResolved(variant, a), EncodeStart(variant, a))
        /\ c.pc = EncodeStart(variant, a) => c.data.by # "none"
        /\ Has(c.log, "upload") =>
              /\ Before(c.log, Encoded(variant, a), "upload")
              /\ c.request.sent
              /\ c.request.glb # NoEncoded /\ c.request.usdz # NoEncoded

\* an upload request is out after two exports and two encodings
C8_Witness ==
    \E c \in calls :
        /\ c.kind = "exportToAR" /\ c.pc = "upload"
        /\ Has(c.log, "export.usdz.resolved") /\ Has(c.log, "encode.usdz.resolved")

TokenFailed(c) ==
    \/ Has(c.log, "token.get.rejected")
    \/ (Has(c.log, "token.get.resolved") /\ ~c.tokenResponse.ok)

\* C9 -- token strategy: when the token request fails or is answered with a
\* non-success status, no upload request is issued in that invocation, one
\* failure notice is shown and busy is set back to false.
C9_TokenFailureStopsUpload ==
    \A c \in ExportCalls :
        TokenFailed(c) =>
            /\ ~Has(c.log, "upload") /\ ~c.request.sent
            /\ Outcome(c) = FailureOutcome
            /\ calls = {} => ~busy

\* the token endpoint answered with a non-success status
C9_Witness ==
    /\ last.kind = "exportToAR"
    /\ Has(last.log, "token.get.resolved") /\ ~last.tokenResponse.ok

\* C10 -- token strategy: an upload request is issued only after a token GET
\* of the same invocation, which is issued after the encodings and whose
\* answer is the last thing awaited before the upload; the bearer credential
\* of the upload is the token of that answer (undefined when the answer has
\* none), so never a token an earlier invocation fetched.  The other
\* revisions request no token.
C10_TokenFetchedBeforeUse ==
    \A c \in ExportCalls :
        /\ variant # "token" => ~Has(c.log, "token.get")
        /\ (variant = "token" /\ c.request.sent) =>
              /\ Has(c.log, "upload")
              /\ Before(c.log, "encode.glb.resolved", "token.get")
              /\ Before(c.log, "encode.usdz.resolved", "token.get")
              /\ SubSeq(c.log, IndexOf(c.log, "token.get"), IndexOf(c.log, "upload"))
                    = <<"token.get", "token.get.resolved", "token.json",
                        "token.json.resolved", "upload">>
              /\ c.request.scheme = "Bearer"
              /\ c.request.token = c.tokenResponse.token
              /\ c.tokenResponse.body = "token" =>
                    (c.request.token > 0 /\ c.request.token <= nTokens)

\* the second invocation of a run uploads with the second token issued
C10_Witness ==
    \E c \in calls :
        /\ c.kind = "exportToAR" /\ c.pc = "upload"
        /\ c.id = 2 /\ c.request.token = 2

\* the events after the first occurrence of e in log l
After(l, e) == SubSeq(l, IndexOf(l, e) + 1, Len(l))

\* C11 -- no automatic retries: an exportToAR invocation issues at most one
\* upload request and, in the token revision, at most one token request (none
\* in the others), whatever the outcome; once it has failed (its catch block
\* has run) it has ended and has sent nothing after the failure, and with no
\* invocation in flight no request is outstanding that could settle.
C11_NoAutomaticRetries ==
    /\ \A c \in ExportCalls :
          /\ Count(c.log, "upload") <= 1
          /\ Count(c.log, "token.get") <= (IF variant = "token" THEN 1 ELSE 0)
          /\ Has(c.log, "console.error") =>
                /\ c.pc = "done" /\ c \notin calls
                /\ ~Has(After(c.log, "console.error"), "upload")
                /\ ~Has(After(c.log, "console.error"), "token.get")
    /\ calls = {} => ~ENABLED Settles

\* a token-revision invocation ended on a rejected upload request, having
\* sent one token request and one upload request
C11_Witness ==
    /\ last.kind = "exportToAR" /\ variant = "token"
    /\ Has(last.log, "upload.rejected") /\ last.pc = "done"
    /\ Count(last.log, "upload") = 1 /\ Count(last.log, "token.get") = 1

\* the upload of c was answered {success:true, arLink:L, qrCodeUrl:Q}
RoundTripAnswer(c) ==
    /\ Has(c.log, "upload.resolved")
    /\ c.response.ok
    /\ c.response.body = [json |-> TRUE, success |-> "true", arLink |-> "L",
                          qrCodeUrl |-> "Q", error |-> Undefined]

\* C12 -- round trip: an exportToAR invocation whose exporters succeeded and
\* whose upload was answered {success:true, arLink:L, qrCodeUrl:Q} ends having
\* handed exactly the pair (L, Q) to the popup, once, and having set busy
\* back to false.
C12_RoundTrip ==
    \A c \in ExportCalls :
        (RoundTripAnswer(c) /\ c.pc = "done") =>
            /\ c.shown = [how |-> "popup", link |-> "L", qr |-> "Q"]
            /\ Count(c.log, "popup") = 1
            /\ LastEvent(c) = "busy:=false"

\* C13 -- identity uniqueness: two invocations of exportToAR that resolved
\* the same pdbId never derive the same glb filename or the same usdz
\* filename (checked where the derived filenames are used).
C13_FilenamesUnique ==
    \A i, j \in 1..Len(issued) :
        (i < j /\ issued[i].pdbId = issued[j].pdbId) =>
            \A ext \in {"glb", "usdz"} : Filename(issued[i], ext) # Filename(issued[j], ext)

\* the blob is the output of a USDZ exporter: createUsdzExporter, or
\* exportGeometry with the usdz format selected
FromUsdzExporter(blob) ==
    \/ blob.by = "usdzExporter"
    \/ (blob.by = "exportGeometry" /\ blob.format = "usdz")

\* C14 -- the secondary format is never silently substituted: in an upload
\* request (which has no field that marks a placeholder) the usdz artifact is
\* made of the output of a USDZ exporter, and it is not made of the blob the
\* glb artifact is made of.
C14_NoSilentSubstitution ==
    \A c \in ExportCalls :
        c.request.sent =>
            /\ FromUsdzExporter(c.request.usdz.of)
            /\ c.request.usdz.of # c.request.glb.of

\* the events by which a stage of a handler fails
FailureEvents ==
    {"export.rejected", "export.glb.rejected", "export.usdz.rejected",
     "encode.glb.rejected", "encode.usdz.rejected",
     "token.get.rejected", "throw.tokenStatus", "token.json.rejected",
     "upload.rejected", "throw.uploadStatus", "upload.json.rejected",
     "throw.uploadFailed", "qr.rejected"}

Failed(c) == \E e \in FailureEvents : Has(c.log, e)

\* C15 -- failures never propagate to the caller: the promise an invocation
\* of save, viewInAR or exportToAR returned is never rejected and is resolved
\* once the invocation has ended; when a stage failed, the next thing the
\* handler did was to log the cause in its catch block, no exception is left
\* propagating, and the invocation has ended with its promise resolved.
C15_FailuresContained ==
    \A c \in AllCalls :
        /\ c.returned # "rejected"
        /\ c.pc = "done" <=> c.returned = "resolved"
        /\ Failed(c) =>
              /\ \E e \in FailureEvents :
                    /\ Has(c.log, e)
                    /\ Head(After(c.log, e)) = "console.error"
              /\ Count(c.log, "console.error") = 1
              /\ c.error = Undefined
              /\ c.pc = "done" /\ c.returned = "resolved"

\* a viewInAR invocation whose export was rejected has ended
C15_Witness ==
    /\ last.kind = "viewInAR"
    /\ Has(last.log, "export.rejected")
    /\ last.returned = "resolved"

\* an object URL that invocation id created exists and is in state `revoke`
URLOf(id, revoke) == \E u \in objectURLs : u.id = id /\ u.revoke = revoke

\* C16 -- viewInAR releases its object URLs: every object URL has one timer
\* that revokes it and one that dispatches the click, each run at most once;
\* it is never revoked before its click has been dispatched; an invocation
\* creates at most one URL and none when its export was rejected, and save
\* and exportToAR create none; and when due timers eventually run, every
\* URL created is eventually revoked.
C16_ObjectURLsReleased ==
    /\ [](\A u \in objectURLs :
            /\ u.click # "none" /\ u.revoke # "none"
            /\ u.revoke = "fired" => u.click = "fired"
            /\ Cardinality({w \in objectURLs : w.id = u.id}) = 1)
    /\ [](\A c \in AllCalls :
            /\ Count(c.log, "createObjectURL") <= (IF c.kind = "viewInAR" THEN 1 ELSE 0)
            /\ Has(c.log, "export.rejected") =>
                  (~Has(c.log, "createObjectURL") /\ ~\E u \in objectURLs : u.id = c.id))
    /\ \A id \in 1..MaxInv : URLOf(id, "pending") ~> URLOf(id, "fired")

\* the object URLs of two viewInAR invocations have both been revoked
C16_Witness ==
    /\ URLOf(1, "fired") /\ URLOf(2, "fired")
    /\ \A u \in objectURLs : u.click = "fired"

\* C17 -- the AR-capability detection is memoized: relList.supports('ar') is
\* called at most once and has been called once the controls have been
\* rendered; isARSupported is undefined before the call and a definite
\* boolean after it, and from then on never changes; no step of a save,
\* viewInAR or exportToAR handler calls the probe or assigns isARSupported.
\* (The revisions without a "View in AR" button never probe.)
C17_DetectionMemoized ==
    /\ [](/\ nProbes <= 1
          /\ nProbes = 0 <=> isARSupported = Undefined
          /\ nProbes = 1 <=> isARSupported \in {"true", "false"}
          /\ (HasViewInAR(variant) /\ ~isCollapsed) => nProbes = 1
          /\ ~HasViewInAR(variant) => nProbes = 0)
    /\ [][/\ isARSupported # Undefined => isARSupported' = isARSupported
          /\ (calls' # calls \/ last' # last \/ nStarted' # nStarted) =>
                (nProbes' = nProbes /\ isARSupported' = isARSupported)]_vars

\* the panel was expanded, two handlers ran (the later one an exportToAR),
\* and the panel, collapsed since, is expanded again: still one probe
C17_Witness ==
    /\ nProbes = 1 /\ isARSupported = "false"
    /\ nStarted = MaxInv /\ last.kind = "exportToAR" /\ last.id = MaxInv
    /\ ~isCollapsed

\* the trigger buttons that are rendered
Triggers ==
    {Controls.save, Controls.exportAR} \cup
    (IF Controls.viewInAR.shown THEN {Controls.viewInAR} ELSE {})

\* C18 -- while busy is true the parameter controls and every rendered
\* trigger button (Save, View in AR, Export to AR) are disabled, and the
\* trigger buttons are disabled as well whenever the representation count
\* is zero; a disabled control delivers no click and no parameter change.
C18_ControlsDisabled ==
    /\ busy => (Controls.params.disabled /\ \A t \in Triggers : t.disabled)
    /\ reprCount = 0 => \A t \in Triggers : t.disabled
    /\ (busy \/ reprCount = 0) =>
          (~ENABLED ClickSave /\ ~ENABLED ClickViewInAR /\ ~ENABLED ClickExportToAR)
    /\ busy => ~ENABLED ChangeParams

\* the panel is open with all three trigger buttons rendered while a
\* viewInAR invocation is in flight
C18_Witness ==
    /\ busy /\ ~isCollapsed /\ reprCount > 0 /\ nStarted < MaxInv
    /\ Controls.viewInAR.shown
    /\ \E c \in calls : c.kind = "viewInAR"

\* a blob an exporter resolved with, of no bytes
EmptyBlob(blob) == blob.by # "none" /\ blob.bytes = <<>>

\* an exporter of invocation c has resolved with an empty blob
EmptyArtifact(c) == EmptyBlob(c.data) \/ EmptyBlob(c.glb.of) \/ EmptyBlob(c.usdz.of)

\* C19 -- an exporter that returns an empty result makes the export stage
\* fail: an exportToAR invocation one of whose exporters resolved with an
\* empty blob issues no token request and no upload request, and ends with
\* the outcome of a failure (one failure notice, nothing presented).
C19_EmptyResultFails ==
    \A c \in ExportCalls :
        EmptyArtifact(c) =>
            /\ NoPublish(c)
            /\ c.pc = "done" => Outcome(c) = FailureOutcome

\* C20 -- encoding failure: a read error of the FileReader rejects the
\* promise of blobToBase64 (the loadend event that follows the error does
\* not resolve it with an empty string), the invocation issues no token
\* request and no upload request, and it ends with one failure notice and
\* busy set back to false.
C20_ReadErrorFailsEncoding ==
    /\ \A bytes \in ByteStrings, f \in Formats :
          blobToBase64(variant, [by |-> "exportGeometry", format |-> f, bytes |-> bytes],
                       "error").state = "rejected"
    /\ \A c \in ExportCalls :
          Has(c.log, "reader.error") =>
              /\ Head(After(c.log, "reader.error"))
                    \in {"encode.glb.rejected", "encode.usdz.rejected"}
              /\ NoPublish(c)
              /\ Outcome(c) = FailureOutcome
              /\ calls = {} => ~busy

\* in the revision that resolves on loadend, the read of the usdz blob
\* failed after the glb artifact had been encoded
C20_Witness ==
    /\ variant = "proxy" /\ last.kind = "exportToAR"
    /\ Has(last.log, "encode.glb.resolved")
    /\ Has(last.log, "reader.error") /\ Has(last.log, "encode.usdz.rejected")

\* C21 -- fail-fast among exporters (the revision with two exporters): the
\* first rejection of an exporter ends the invocation.  After a rejected GLB
\* export the USDZ exporter is not called and nothing is encoded or
\* uploaded; after a rejected USDZ export the GLB artifact, encoded by then,
\* is not uploaded.
C21_FailFastAmongExporters ==
    \A c \in ExportCalls :
        /\ Has(c.log, "export.glb.rejected") =>
              /\ ~Has(c.log, "export.usdz")
              /\ ~Has(c.log, "encode.glb") /\ ~Has(c.log, "encode.usdz")
              /\ c.glb = NoEncoded /\ c.usdz = NoEncoded
              /\ NoPublish(c)
              /\ c.pc = "done"
        /\ Has(c.log, "export.usdz.rejected") =>
              /\ Has(c.log, "encode.glb.resolved") /\ c.glb # NoEncoded
              /\ ~Has(c.log, "encode.usdz") /\ c.usdz = NoEncoded
              /\ NoPublish(c)
              /\ c.pc = "done"

\* the GLB exporter rejected, with a structure loaded and nothing else called
C21_Witness ==
    /\ variant = "proxy" /\ last.kind = "exportToAR"
    /\ Has(last.log, "export.glb.rejected")
    /\ last.subjects > 0

\* the upload request of c was answered with a success: a 2xx status and,
\* where the endpoint answers with a payload, success: true
PublishSucceeded(c) ==
    /\ Has(c.log, "upload.resolved")
    /\ c.response.ok
    /\ variant # "direct" => (c.response.body.json /\ c.response.body.success = "true")

\* the events by which exportToAR presents something to the user
PresentationEvents == {"popup", "window.open", "alert.uploaded", "alert.failed"}

\* C22 -- presentation happens inside Busy: an exportToAR invocation shows
\* the share presentation (popup, opened link) only after its upload was
\* answered with a success; the share presentation and the failure notice
\* are issued before busy is set back to false, and setting busy to false
\* is the last call of the invocation.
C22_PresentationInsideBusy ==
    \A c \in ExportCalls :
        /\ c.shown.how # "none" => PublishSucceeded(c)
        /\ \A e \in {"popup", "window.open"} :
              Has(c.log, e) => Before(c.log, "upload.resolved", e)
        /\ \A e \in PresentationEvents :
              (Has(c.log, e) /\ Has(c.log, "busy:=false")) => Before(c.log, e, "busy:=false")
        /\ c.pc = "done" => (LastEvent(c) = "busy:=false" /\ Count(c.log, "busy:=false") = 1)

\* C23 -- no cancellation and no timeout: an invocation in flight ends only
\* when the stage it awaits settles.  Busy turns false only in a step in
\* which an awaited stage settles; every other step (a click, a timer, the
\* popup, the panel, the parameters, the scene) leaves the invocations in
\* flight as they are and busy true; so while the awaited stage does not
\* settle busy stays true, and while busy is true no trigger delivers a
\* click.
C23_NoCancellation ==
    /\ [][(busy /\ ~busy') => Settles]_vars
    /\ [][(calls # {} /\ ~Settles) => (calls' = calls /\ busy')]_vars
    /\ [](busy => (~ENABLED ClickSave /\ ~ENABLED ClickViewInAR /\ ~ENABLED ClickExportToAR))

\* a token request is outstanding while the user could otherwise act: the
\* panel is open, representations exist, the budget of invocations is not
\* used up, a popup of an earlier invocation can be closed
C23_Witness ==
    /\ \E c \in calls : c.pc = "upload" /\ c.id = 2
    /\ busy /\ ~isCollapsed /\ reprCount > 0 /\ nStarted < MaxInv + 1
    /\ popups # <<>>

ViewCalls == {c \in AllCalls : c.kind = "viewInAR"}

\* C24 -- viewInAR bypasses publishing: an invocation of viewInAR calls the
\* exporter once, issues no token request and no upload request and shows no
\* share presentation (no popup, no opened link, no alert), whether the
\* export resolved or rejected; the steps of a viewInAR invocation leave the
\* popups on display and the count of token requests as they were.
C24_ViewInARBypassesPublishing ==
    /\ [](\A c \in ViewCalls :
            /\ Count(c.log, "export") = 1
            /\ NoPublish(c)
            /\ c.shown = NoShown /\ c.request = NoRequest
            /\ \A e \in PresentationEvents \cup {"alert.nostructure", "qr"} : ~Has(c.log, e)
            /\ c.pc = "done" => (Has(c.log, "export.resolved") \/ Has(c.log, "export.rejected")))
    /\ [][(\E c \in (calls \ calls') \cup (calls' \ calls) : c.kind = "viewInAR")
            => (popups' = popups /\ nTokens' = nTokens)]_vars

\* a viewInAR invocation ended by a rejected export after an earlier one
\* had succeeded and handed its object URL to the browser
C24_Witness ==
    /\ last.kind = "viewInAR" /\ last.pc = "done" /\ Has(last.log, "export.rejected")
    /\ \E u \in objectURLs : u.id # last.id

Sentinels == {"unknown", "Unknown"}

\* the frames of next state that resolved their subject id in this step
Resolving ==
    {d \in calls' \cup {last'} :
        /\ d.pdbId # Undefined
        /\ ~\E c \in calls \cup {last} : c.id = d.id /\ c.pdbId = d.pdbId}

\* C25 -- subject id resolution: the id an invocation resolves is the entry
\* id of the first loaded structure's model when there is one and it is not
\* empty, and the sentinel in every other case; the pdbId of an upload
\* request and the pdbId in a derived filename are that resolved id, never
\* undefined and never empty.
C25_SubjectIdResolution ==
    /\ [][\A d \in Resolving :
              IF structures # <<>> /\ structures[1] \notin {"", Undefined}
              THEN d.pdbId = structures[1]
              ELSE d.pdbId \in Sentinels]_vars
    /\ [](\A c \in ExportCalls :
              /\ c.request.sent => (c.request.pdbId = c.pdbId /\ c.pdbId \notin {"", Undefined})
              /\ c.timestamp # 0 => c.pdbId \notin {"", Undefined})
    /\ [](\A i \in 1..Len(issued) : Filename(issued[i], "glb")[1] \notin {"", Undefined})

\* an upload request went out under the sentinel because the first structure
\* carries no entry id, after an earlier invocation had derived filenames
\* under a real entry id
C25_Witness ==
    /\ \E c \in calls : c.request.sent /\ c.request.pdbId \in Sentinels
    /\ structures = <<"">>
    /\ \E i \in 1..Len(issued) : issued[i].pdbId = "1CRN"

\* C26 -- the busy flag is accurate: in every reachable state busy is true
\* exactly when an invocation of save, viewInAR or exportToAR is between its
\* start and its completion (so while busy is false none is), and in a step
\* in which an invocation completes and sets busy back no other invocation
\* is left in flight.
C26_BusyAccurate ==
    /\ [](busy <=> calls # {})
    /\ [](\A c \in calls : c.pc # "done" /\ Has(c.log, "busy:=true") /\ ~Has(c.log, "busy:=false"))
    /\ [][(last' # last /\ last'.pc = "done") => (calls' = {} /\ ~busy')]_vars

\* the second invocation, a save, has completed: busy is false again and
\* nothing is in flight
C26_Witness ==
    /\ last.kind = "save" /\ last.id = 2 /\ last.pc = "done"
    /\ ~busy /\ calls = {}

\* the share presentations an invocation made: a popup, or an opened link
Presentations(c) == Count(c.log, "popup") + Count(c.log, "window.open")

\* the alerts by which an invocation told its user that nothing was shared:
\* 'Export to AR failed.' and, in part_000, 'No structure loaded!'
FailureAlerts(c) == Count(c.log, "alert.failed") + Count(c.log, "alert.nostructure")

\* C27 -- exactly one user-visible outcome: an exportToAR invocation that
\* has completed has either made one share presentation (a popup, or in the
\* token revision an opened link) and raised no failure alert, or has raised
\* exactly one failure alert and presented nothing; at no moment has an
\* invocation done both.
C27_ExactlyOneOutcome ==
    \A c \in ExportCalls :
        /\ Presentations(c) = 0 <=> c.shown = NoShown
        /\ Presentations(c) > 0 => FailureAlerts(c) = 0
        /\ c.pc = "done" =>
              \/ Presentations(c) = 1 /\ FailureAlerts(c) = 0
              \/ Presentations(c) = 0 /\ FailureAlerts(c) = 1

\* the answer to the upload said success: false: the invocation has
\* completed with one failure alert and nothing presented, while the popup
\* of an earlier invocation shows that one's presentation
C27_Witness ==
    /\ last.kind = "exportToAR" /\ last.pc = "done"
    /\ Has(last.log, "throw.uploadFailed")
    /\ FailureAlerts(last) = 1 /\ Presentations(last) = 0
    /\ popups # <<>>

\* C28 -- direct dispatch: when the popup of ui.tsx presents its link, the
\* two filenames in the link are those the same invocation derived, and the
\* request that invocation sent to the dispatch endpoint carries those
\* filenames, or the timestamp and the random id they are built from.
C28_LinkNamesSentArtifacts ==
    \A c \in ExportCalls :
        (variant = "direct" /\ c.shown.how = "popup") =>
            /\ \E i \in 1..Len(issued) :
                  /\ ModelUrl(c).glb = Filename(issued[i], "glb")
                  /\ ModelUrl(c).usdz = Filename(issued[i], "usdz")
            /\ c.request.sent
            /\ \/ {ModelUrl(c).glb, ModelUrl(c).usdz} \subseteq c.request.filenames
               \/ {"timestamp", "randomId"} \subseteq DOMAIN c.request

\* C29 -- no stale result on display: at most one share popup is in the
\* document; while an invocation of exportToAR is in flight, and after one
\* has failed, no popup of an earlier invocation is still displayed.
C29_NoStalePopup ==
    /\ Len(popups) <= 1
    /\ (\E c \in calls : c.kind = "exportToAR") => popups = <<>>
    /\ (last.kind = "exportToAR" /\ last.pc = "done" /\ FailureAlerts(last) > 0) => popups = <<>>

\* the blob is the output of a GLB export: createGlbExporter, or
\* exportGeometry with the glb format selected
FromGlbExporter(blob) ==
    \/ blob.by = "glbExporter"
    \/ (blob.by = "exportGeometry" /\ blob.format = "glb")

\* C30 -- the glb artifact is a GLB export: in every upload request sent
\* the artifact in the glb field (the .glb file of the multipart revision) is
\* the output of a GLB export, whatever format is selected in the export
\* parameters.
C30_GlbArtifactIsGlb ==
    \A c \in ExportCalls :
        c.request.sent => FromGlbExporter(c.request.glb.of)

====
